---- MODULE Spec2Model ----
(***************************************************************************)
(* itee-hub: the record store (files / telegram_msgs tables of one SQLite  *)
(* connection), the downloader, the change detector and the Telegram       *)
(* delivery loop, as a state machine over process runs.                    *)
(***************************************************************************)
EXTENDS Integers, Sequences, FiniteSets, TLC

VARIABLES
    files,            \* rows of table files as this connection sees them (rowid order)
    msgs,             \* rows of table telegram_msgs as this connection sees them
    committed_files,  \* number of leading rows of files that are committed on disk
    committed_msgs,   \* number of leading rows of msgs that are committed on disk
    fs,               \* local paths that exist under data_dir
    pc,               \* where the process is: between the calls of main, in a batch
                      \* loop, in update, done, or left by an exception (raised)
    todo,             \* links left in the running update_questions / update_results loop
    refresh_file,     \* args.refresh of this process
    chat,             \* chat_id of the running / last TelegramBot.update
    pending_files,    \* the list get_pendings returned to the running / last update
    outcomes,         \* outcome of each item of pending_files handled so far
    runs,             \* number of process starts so far
    last              \* what the last step did: operation, inputs, network calls, result

vars == <<files, msgs, committed_files, committed_msgs, fs, pc, todo, refresh_file,
          chat, pending_files, outcomes, runs, last>>

----------------------------------------------------------------------------
(* Bounds and the small universe the inputs are drawn from.                *)

MaxRuns == 2

Chats == {"c1", "c2"}
Md5s == {"a", "b"}
Timestamps == {999999999, 1000000000}

None == [type |-> "NoneType"]

(* The listing pages: what extract_table_links / extract_result_table_links
   return for a fetched page.  Q0 is a question link whose file name holds no
   year; R1 is a result link. *)
FE_QUES_URL == <<"Q0", "Q1">>
IP_QUES_URL == <<"Q2">>
RESULTS_URL == <<"R1">>

Links == {"Q0", "Q1", "Q2", "R1"}

YearOfFileName(link) == IF link = "Q0" THEN None ELSE [type |-> "str", val |-> "2019"]

YearMonth(link) ==
    CASE link = "Q0" -> "April"
      [] link = "Q1" -> "2019 April"
      [] link = "Q2" -> "2019 October"
      [] link = "R1" -> "2019 April "

(* The path download writes: data_dir / path_suffix / [file_name_suffix _] file_name,
   where the caller passes the listing's year and, for results, the listing's
   country text. *)
DownloadPath(link) ==
    CASE link = "Q0" -> "none/questions/Q0"
      [] link = "Q1" -> "2019/questions/Q1"
      [] link = "Q2" -> "2019/questions/Q2"
      [] link = "R1" -> "2019/results/Viet Nam_R1"

(* The path get_file_path_from_link_info looks up: year, type and country all
   taken from the link itself.  For R1 the link's country segment differs from
   the listing's country text, so the lookup misses the downloaded file. *)
LookupPath(link) ==
    CASE link = "Q0" -> "none/questions/Q0"
      [] link = "Q1" -> "2019/questions/Q1"
      [] link = "Q2" -> "2019/questions/Q2"
      [] link = "R1" -> "2019/results/vietnam_R1"

----------------------------------------------------------------------------
(* Integers and TEXT columns.                                              *)

RECURSIVE IntToText(_)
IntToText(n) == IF n < 10 THEN <<n>> ELSE Append(IntToText(n \div 10), n % 10)

RECURSIVE TextToInt(_)
TextToInt(t) ==
    IF Len(t) = 0 THEN 0
    ELSE 10 * TextToInt(SubSeq(t, 1, Len(t) - 1)) + t[Len(t)]

(* BINARY collation: byte-wise comparison, a proper prefix sorts first. *)
RECURSIVE TextLess(_, _)
TextLess(a, b) ==
    IF Len(b) = 0 THEN FALSE
    ELSE IF Len(a) = 0 THEN TRUE
    ELSE IF a[1] # b[1] THEN a[1] < b[1]
    ELSE TextLess(Tail(a), Tail(b))

----------------------------------------------------------------------------
(* Record store: DBHandler and the two tables.                             *)

(* A value bound to a TEXT column gets TEXT affinity: an integer is stored,
   and compared, as its decimal text. *)
TextAffinity(v) == IntToText(v)

commit(ok) ==
    IF ok
    THEN committed_files' = Len(files) /\ committed_msgs' = Len(msgs)
    ELSE UNCHANGED <<committed_files, committed_msgs>>

(* Variant of add_file: an upsert keyed by md5 instead of a plain INSERT. *)
add_file_replacing(link, last_modified, year_month, md5) ==
    Append(SelectSeq(files, LAMBDA r : r.md5 # md5),
           [link |-> link, last_modified |-> TextAffinity(last_modified),
            md5 |-> md5, year_month |-> year_month])

add_file(link, last_modified, year_month, md5) ==
    Append(files, [link |-> link, last_modified |-> TextAffinity(last_modified),
                   md5 |-> md5, year_month |-> year_month])

get_file(link, last_modified, md5) ==
    LET result == SelectSeq(files, LAMBDA r :
                      r.link = link /\ (r.md5 = md5 \/ r.last_modified = TextAffinity(last_modified)))
    IN  IF result # <<>> THEN [type |-> "list", val |-> result] ELSE None

(* Python's `x is True`: only the bool True is True. *)
IsTrue(x) == x.type = "bool" /\ x.val

----------------------------------------------------------------------------
(* Delivery tracker queries: TelegramBot.get_pendings / add_record.        *)

(* Variant of LeftJoin: the join without its msg.chat_id = :chat_id condition. *)
LeftJoinAnyChat(chat_id) ==
    LET on(i, j) == files[i].md5 = msgs[j].md5
    IN  {<<i, j>> \in (1..Len(files)) \X (1..Len(msgs)) : on(i, j)}
        \cup {<<i, 0>> : i \in {k \in 1..Len(files) : \A j \in 1..Len(msgs) : ~on(k, j)}}

(* files AS f LEFT JOIN telegram_msgs AS msg ON f.md5 = msg.md5 AND
   msg.chat_id = :chat_id; a file row without a match is kept once with a
   NULL msg row, written 0. *)
LeftJoin(chat_id) ==
    LET on(i, j) == files[i].md5 = msgs[j].md5 /\ msgs[j].chat_id = chat_id
    IN  {<<i, j>> \in (1..Len(files)) \X (1..Len(msgs)) : on(i, j)}
        \cup {<<i, 0>> : i \in {k \in 1..Len(files) : \A j \in 1..Len(msgs) : ~on(k, j)}}

(* WHERE msg.md5 IS NULL: the file rowids that survive. *)
WhereNull(chat_id) == {p[1] : p \in {q \in LeftJoin(chat_id) : q[2] = 0}}

(* ORDER BY f.last_modified ASC on a TEXT column: every arrangement of the
   rows that is non-decreasing in text order (ties in either order). *)
OrderBy(rowids) ==
    {o \in [1..Cardinality(rowids) -> rowids] :
        /\ \A x, y \in DOMAIN o : x # y => o[x] # o[y]
        /\ \A x \in DOMAIN o : x + 1 \in DOMAIN o =>
              ~TextLess(files[o[x + 1]].last_modified, files[o[x]].last_modified)}

(* The lists get_pendings may return. *)
get_pendings(chat_id) ==
    {[k \in DOMAIN o |-> files[o[k]]] : o \in OrderBy(WhereNull(chat_id))}

(* Variant of add_record: the two bound values swapped. *)
add_record_swapped(chat_id, md5) == Append(msgs, [chat_id |-> md5, md5 |-> chat_id])

add_record(chat_id, md5) == Append(msgs, [chat_id |-> chat_id, md5 |-> md5])

----------------------------------------------------------------------------
(* What the collaborators may answer.                                      *)

HeadResponses ==
    {[status |-> "error", last_modified |-> 0], [status |-> "no_header", last_modified |-> 0]}
    \cup {[status |-> "ok", last_modified |-> t] : t \in Timestamps}

GetResponses ==
    {[status |-> "error", last_modified |-> 0, content |-> "a"],
     [status |-> "no_header", last_modified |-> 0, content |-> "a"]}
    \cup {[status |-> "ok", last_modified |-> t, content |-> m] : t \in Timestamps, m \in Md5s}

SendOutcomes == {"sent", "TelegramBadRequest", "TelegramNetworkError"}

(* One observation of a step: the operation, its inputs, the network calls it
   made, the timestamp a HEAD answered (remote, 0 when none) and how it ended. *)
Obs(op, link, refresh, existed, head, get, result) ==
    [op |-> op, link |-> link, refresh_file |-> refresh, existed |-> existed,
     HEAD |-> head, GET |-> get, remote |-> 0, result |-> result]

----------------------------------------------------------------------------
(* Change detector and downloader.                                         *)

is_file_changed(link, last_modified) ==
    IsTrue(get_file(link, last_modified, ""))

(* Variant of download: without the `if not refresh_file: return` test. *)
download_always_checking(link, year_month, refresh, head_resp, get_resp, write_ok) ==
    LET file_path == DownloadPath(link)
        existed == file_path \in fs
        o(head, get, result) ==
            [Obs("download", link, refresh, existed, head, get, result)
                EXCEPT !.remote = IF head THEN head_resp.last_modified ELSE 0]
    IN  IF existed /\ head_resp.status # "ok"
        THEN UNCHANGED <<files, fs>> /\ last' = o(TRUE, FALSE, "raised")
        ELSE IF existed /\ ~is_file_changed(link, head_resp.last_modified)
        THEN UNCHANGED <<files, fs>> /\ last' = o(TRUE, FALSE, "unchanged")
        ELSE IF get_resp.status # "ok"
        THEN UNCHANGED <<files, fs>> /\ last' = o(existed, TRUE, "raised")
        ELSE IF ~write_ok
        THEN /\ fs' = fs \cup {file_path}
             /\ UNCHANGED files
             /\ last' = o(existed, TRUE, "raised")
        ELSE /\ fs' = fs \cup {file_path}
             /\ files' = add_file(link, get_resp.last_modified, year_month, get_resp.content)
             /\ last' = o(existed, TRUE, "downloaded")

(* download(path_suffix, link, year_month, file_name_suffix, refresh_file); the
   path arguments are folded into DownloadPath(link). *)
download(link, year_month, refresh, head_resp, get_resp, write_ok) ==
    LET file_path == DownloadPath(link)
        existed == file_path \in fs
        o(head, get, result) ==
            [Obs("download", link, refresh, existed, head, get, result)
                EXCEPT !.remote = IF head THEN head_resp.last_modified ELSE 0]
    IN  IF existed /\ ~refresh
        THEN UNCHANGED <<files, fs>> /\ last' = o(FALSE, FALSE, "skipped")
        ELSE IF existed /\ head_resp.status # "ok"
        THEN \* head / raise_for_status / parsedate_to_datetime(None) raises
             UNCHANGED <<files, fs>> /\ last' = o(TRUE, FALSE, "raised")
        ELSE IF existed /\ ~is_file_changed(link, head_resp.last_modified)
        THEN UNCHANGED <<files, fs>> /\ last' = o(TRUE, FALSE, "unchanged")
        ELSE IF get_resp.status # "ok"
        THEN \* get / raise_for_status / parsedate_to_datetime(None) raises
             UNCHANGED <<files, fs>> /\ last' = o(existed, TRUE, "raised")
        ELSE IF ~write_ok
        THEN \* open("wb") created the file, the write failed
             /\ fs' = fs \cup {file_path}
             /\ UNCHANGED files
             /\ last' = o(existed, TRUE, "raised")
        ELSE /\ fs' = fs \cup {file_path}
             /\ files' = add_file(link, get_resp.last_modified, year_month, get_resp.content)
             /\ last' = o(existed, TRUE, "downloaded")

----------------------------------------------------------------------------
(* Batch operations of __main__: update_questions / update_results.        *)

Listing(url) ==
    CASE url = "FE_QUES_URL" -> FE_QUES_URL
      [] url = "IP_QUES_URL" -> IP_QUES_URL
      [] url = "RESULTS_URL" -> RESULTS_URL

(* Where main stands between its calls, and the batch each call runs. *)
BatchOf(url) ==
    CASE url = "FE_QUES_URL" -> "update_questions_fe"
      [] url = "IP_QUES_URL" -> "update_questions_ip"
      [] url = "RESULTS_URL" -> "update_results"

CalledFrom(url) ==
    CASE url = "FE_QUES_URL" -> {"start"}
      [] url = "IP_QUES_URL" -> {"fe_done"}
      [] url = "RESULTS_URL" -> {"start", "questions_done"}

ReturnsTo(batch) ==
    CASE batch = "update_questions_fe" -> "fe_done"
      [] batch = "update_questions_ip" -> "questions_done"
      [] batch = "update_results" -> "results_done"

(* get_web_page_soup returns None when the page cannot be fetched; the link
   extractor then dereferences None and the AttributeError leaves the batch
   operation. *)
StartBatch(op, url, soup_ok) ==
    /\ pc \in CalledFrom(url)
    /\ IF soup_ok
       THEN /\ pc' = BatchOf(url)
            /\ todo' = Listing(url)
            /\ last' = Obs(op, url, refresh_file, FALSE, FALSE, TRUE, "listed")
       ELSE /\ pc' = "raised"
            /\ UNCHANGED todo
            /\ last' = Obs(op, url, refresh_file, FALSE, FALSE, TRUE, "raised")
    /\ UNCHANGED <<files, msgs, committed_files, committed_msgs, fs, refresh_file, chat,
                   pending_files, outcomes, runs>>

(* main calls update_questions for FE_QUES_URL, then for IP_QUES_URL. *)
UpdateQuestions(url, soup_ok) ==
    /\ url \in {"FE_QUES_URL", "IP_QUES_URL"}
    /\ StartBatch("update_questions", url, soup_ok)

UpdateResults(soup_ok) ==
    StartBatch("update_results", "RESULTS_URL", soup_ok)

(* One pass of the for loop of update_questions: the year check, then download
   inside try/except Exception. *)
QuestionsStep(head_resp, get_resp, write_ok) ==
    /\ pc \in {"update_questions_fe", "update_questions_ip"}
    /\ todo # <<>>
    /\ LET file_link == Head(todo)
       IN  IF YearOfFileName(file_link) = None
           THEN /\ UNCHANGED <<files, fs>>
                /\ last' = Obs("update_questions", file_link, refresh_file, FALSE, FALSE, FALSE, "no_year")
           ELSE download(file_link, YearMonth(file_link), refresh_file, head_resp, get_resp, write_ok)
    /\ todo' = Tail(todo)
    /\ pc' = IF Tail(todo) = <<>> THEN ReturnsTo(pc) ELSE pc
    /\ UNCHANGED <<msgs, committed_files, committed_msgs, refresh_file, chat,
                   pending_files, outcomes, runs>>

(* One pass of the inner for loop of update_results. *)
ResultsStep(head_resp, get_resp, write_ok) ==
    /\ pc = "update_results"
    /\ todo # <<>>
    /\ download(Head(todo), YearMonth(Head(todo)), refresh_file, head_resp, get_resp, write_ok)
    /\ todo' = Tail(todo)
    /\ pc' = IF Tail(todo) = <<>> THEN ReturnsTo(pc) ELSE pc
    /\ UNCHANGED <<msgs, committed_files, committed_msgs, refresh_file, chat,
                   pending_files, outcomes, runs>>

----------------------------------------------------------------------------
(* Delivery: TelegramBot.                                                  *)

(* TelegramBot(db, bot): init_db creates the table and commits. *)
TelegramBotInit(commit_ok) ==
    /\ pc \in {"start", "questions_done", "results_done"}
    /\ commit(commit_ok)
    /\ pc' = "bot"
    /\ last' = Obs("TelegramBot", "", FALSE, FALSE, FALSE, FALSE, "ready")
    /\ UNCHANGED <<files, msgs, fs, todo, refresh_file, chat, pending_files, outcomes, runs>>

get_file_path_from_link_info(link) ==
    IF LookupPath(link) \in fs
    THEN [type |-> "Path", val |-> LookupPath(link)]
    ELSE None

(* prepare_msg reads file_path.name while composing the tags: with file_path
   None that is an AttributeError. *)
prepare_msg(record) ==
    LET file_path == get_file_path_from_link_info(record.link)
    IN  IF file_path = None
        THEN [type |-> "AttributeError"]
        ELSE [type |-> "tuple",
              last_modified |-> TextToInt(record.last_modified),
              file_path |-> file_path.val]

(* update(chat_id) up to the loop: get_pendings and the empty check. *)
Update(chat_id) ==
    /\ pc = "bot"
    /\ \E p \in get_pendings(chat_id) :
          /\ pending_files' = p
          /\ pc' = IF p = <<>> THEN "done" ELSE "update"
    /\ chat' = chat_id
    /\ outcomes' = <<>>
    /\ last' = Obs("update", "", FALSE, FALSE, FALSE, FALSE, "pendings")
    /\ UNCHANGED <<files, msgs, committed_files, committed_msgs, fs, todo, refresh_file, runs>>

(* Variant of SendStep: add_record outside the try, run whatever send_document raised. *)
SendStepRecordingFirst(outcome) ==
    /\ pc = "update"
    /\ Len(outcomes) < Len(pending_files)
    /\ LET i == pending_files[Len(outcomes) + 1]
           prepared_msg == prepare_msg(i)
           result == IF prepared_msg.type = "AttributeError" THEN "AttributeError" ELSE outcome
           is_last == Len(outcomes) + 1 = Len(pending_files)
       IN  /\ outcomes' = Append(outcomes, result)
           /\ msgs' = IF result # "AttributeError" THEN add_record(chat, i.md5) ELSE msgs
           /\ pc' = IF result \in {"sent", "TelegramBadRequest"}
                    THEN (IF is_last THEN "done" ELSE "update")
                    ELSE "raised"
           /\ last' = Obs("send", i.link, FALSE, FALSE, FALSE, FALSE, result)
    /\ UNCHANGED <<files, committed_files, committed_msgs, fs, todo, refresh_file, chat,
                   pending_files, runs>>

(* Variant of SendStep: the add_record call after send_document left out. *)
SendStepNotRecording(outcome) ==
    /\ pc = "update"
    /\ Len(outcomes) < Len(pending_files)
    /\ LET i == pending_files[Len(outcomes) + 1]
           prepared_msg == prepare_msg(i)
           result == IF prepared_msg.type = "AttributeError" THEN "AttributeError" ELSE outcome
           is_last == Len(outcomes) + 1 = Len(pending_files)
       IN  /\ outcomes' = Append(outcomes, result)
           /\ msgs' = msgs
           /\ pc' = IF result \in {"sent", "TelegramBadRequest"}
                    THEN (IF is_last THEN "done" ELSE "update")
                    ELSE "raised"
           /\ last' = Obs("send", i.link, FALSE, FALSE, FALSE, FALSE, result)
    /\ UNCHANGED <<files, committed_files, committed_msgs, fs, todo, refresh_file, chat,
                   pending_files, runs>>

(* One pass of the for loop of update: prepare_msg, then send_document and
   add_record inside try/except TelegramBadRequest. *)
SendStep(outcome) ==
    /\ pc = "update"
    /\ Len(outcomes) < Len(pending_files)
    /\ LET i == pending_files[Len(outcomes) + 1]
           prepared_msg == prepare_msg(i)
           result == IF prepared_msg.type = "AttributeError" THEN "AttributeError" ELSE outcome
           is_last == Len(outcomes) + 1 = Len(pending_files)
       IN  /\ outcomes' = Append(outcomes, result)
           /\ msgs' = IF result = "sent" THEN add_record(chat, i.md5) ELSE msgs
           /\ pc' = IF result \in {"sent", "TelegramBadRequest"}
                    THEN (IF is_last THEN "done" ELSE "update")
                    ELSE "raised"
           /\ last' = Obs("send", i.link, FALSE, FALSE, FALSE, FALSE, result)
    /\ UNCHANGED <<files, committed_files, committed_msgs, fs, todo, refresh_file, chat,
                   pending_files, runs>>

----------------------------------------------------------------------------
(* Process lifecycle.                                                      *)

(* What a new process finds: the committed rows; the open transaction of the
   old connection is rolled back. *)
Reboot(op, refresh) ==
    /\ files' = SubSeq(files, 1, committed_files')
    /\ msgs' = SubSeq(msgs, 1, committed_msgs')
    /\ pc' = "start"
    /\ todo' = <<>>
    /\ refresh_file' = refresh
    /\ chat' = "none"
    /\ pending_files' = <<>>
    /\ outcomes' = <<>>
    /\ last' = Obs(op, "", FALSE, FALSE, FALSE, FALSE, "restarted")
    /\ UNCHANGED fs

(* The same, counted against the number of process starts explored. *)
Restart(op, refresh) ==
    /\ runs < MaxRuns
    /\ runs' = runs + 1
    /\ Reboot(op, refresh)

(* The interpreter ends (main returned or an exception left it) and
   DBHandler.__del__ runs: commit, which swallows its errors, then close. *)
Exit(commit_ok, refresh) ==
    /\ pc \in {"start", "questions_done", "results_done", "done", "raised"}
    /\ commit(commit_ok)
    /\ Restart("exit", refresh)

(* The process is killed: __del__ never runs. *)
Kill(refresh) ==
    /\ UNCHANGED <<committed_files, committed_msgs>>
    /\ Restart("kill", refresh)

----------------------------------------------------------------------------

Init ==
    /\ files = <<>>
    /\ msgs = <<>>
    /\ committed_files = 0
    /\ committed_msgs = 0
    /\ fs = {}
    /\ pc = "start"
    /\ todo = <<>>
    /\ refresh_file \in BOOLEAN
    /\ chat = "none"
    /\ pending_files = <<>>
    /\ outcomes = <<>>
    /\ runs = 1
    /\ last = Obs("start", "", FALSE, FALSE, FALSE, FALSE, "started")

Next ==
    \/ \E url \in {"FE_QUES_URL", "IP_QUES_URL"}, soup_ok \in BOOLEAN :
          UpdateQuestions(url, soup_ok)
    \/ \E soup_ok \in BOOLEAN : UpdateResults(soup_ok)
    \/ \E h \in HeadResponses, g \in GetResponses, w \in BOOLEAN : QuestionsStep(h, g, w)
    \/ \E h \in HeadResponses, g \in GetResponses, w \in BOOLEAN : ResultsStep(h, g, w)
    \/ \E ok \in BOOLEAN : TelegramBotInit(ok)
    \/ \E c \in Chats : Update(c)
    \/ \E o \in SendOutcomes : SendStep(o)
    \/ \E ok, refresh \in BOOLEAN : Exit(ok, refresh)
    \/ \E refresh \in BOOLEAN : Kill(refresh)

Spec == Init /\ [][Next]_vars

----------------------------------------------------------------------------
(* Vocabulary of the properties.                                           *)

Range(seq) == {seq[k] : k \in DOMAIN seq}

(* The rowids of the file rows for which telegram_msgs holds no row
   (chat_id, md5), said without the join. *)
Undelivered(chat_id) ==
    {i \in 1..Len(files) : [chat_id |-> chat_id, md5 |-> files[i].md5] \notin Range(msgs)}

(* The rows some answer of get_pendings holds. *)
Returned(chat_id) == UNION {Range(p) : p \in get_pendings(chat_id)}

(* The step just taken was the send of an item of update that succeeded. *)
SentStep == last'.op = "send" /\ last'.result = "sent"

(* The item the loop of update handles next. *)
CurrentItem == pending_files[Len(outcomes) + 1]

----------------------------------------------------------------------------
(* C1: in every reachable state and for every chat id c, every answer of
   get_pendings(c) holds exactly the file rows whose md5 has no row (c, md5)
   in telegram_msgs, each once: none that is delivered, none omitted. *)
C1_PendingsExact ==
    \A c \in Chats :
        /\ get_pendings(c) # {}
        /\ \A p \in get_pendings(c) :
              /\ Len(p) = Cardinality(Undelivered(c))
              /\ Range(p) = {files[i] : i \in Undelivered(c)}

(* C1 witness: a chat with a delivered file row and an undelivered one. *)
C1_Witness ==
    \E c \in Chats : Undelivered(c) # {} /\ Undelivered(c) # 1..Len(files)

(* C2 as stated: a successful send of a record r pending for the chat, which
   records (chat, r.md5), removes exactly r from get_pendings(chat) and leaves
   get_pendings(d) of every other chat d as it was. *)
C2_RemovesExactlyTheDelivered ==
    [][(SentStep /\ CurrentItem \in Returned(chat)) =>
          \A c \in Chats :
              Returned(c)' = IF c = chat THEN Returned(c) \ {CurrentItem} ELSE Returned(c)]_vars

(* C2 amended: recording the delivery of r to the chat removes from
   get_pendings(chat) exactly the records whose md5 is r.md5 (r and every
   record of the same content), and leaves get_pendings(d) of every other chat
   d as it was. *)
C2_RemovesExactlyTheDeliveredHash ==
    [][(SentStep /\ CurrentItem \in Returned(chat)) =>
          \A c \in Chats :
              Returned(c)' = IF c = chat
                             THEN {x \in Returned(c) : x.md5 # CurrentItem.md5}
                             ELSE Returned(c)]_vars

(* C2 witness: a send has just succeeded while another record stays pending
   for that chat and something is pending for another chat. *)
C2_Witness ==
    /\ last.op = "send" /\ last.result = "sent"
    /\ Returned(chat) # {}
    /\ \E d \in Chats \ {chat} : Returned(d) # {}

(* C3 as stated: every answer of get_pendings, and the list update walks, is
   in non-decreasing numeric order of last_modified. *)
C3_NumericOrder ==
    LET numeric(p) == \A k \in DOMAIN p : k + 1 \in DOMAIN p =>
                          TextToInt(p[k].last_modified) <= TextToInt(p[k + 1].last_modified)
    IN  /\ \A c \in Chats : \A p \in get_pendings(c) : numeric(p)
        /\ numeric(pending_files)

(* The run of update has ended: it returned, or an exception left it. *)
UpdateEnded == last.op \in {"update", "send"} /\ pc \in {"done", "raised"}

(* The step just taken was a download of a link whose local file existed. *)
DownloadOfExisting ==
    last'.op = "download" /\ DownloadPath(last'.link) \in fs

(* C4 as stated: when a run of update has ended, every item of the batch was
   attempted, whatever failed before it, and every item whose send succeeded
   has its delivery record. *)
C4_FailureDoesNotStopBatch ==
    UpdateEnded =>
        /\ Len(outcomes) = Len(pending_files)
        /\ \A k \in DOMAIN outcomes :
              outcomes[k] = "sent" =>
                  [chat_id |-> chat, md5 |-> pending_files[k].md5] \in Range(msgs)

(* C5 as stated: an item of the batch whose send failed is still returned by
   get_pendings(chat_id) after the run. *)
C5_FailedStaysPending ==
    \A k \in DOMAIN outcomes :
        outcomes[k] # "sent" => pending_files[k] \in Returned(chat)

(* C5 amended: update appends a delivery record (chat_id, md5), one row, in
   the step whose send succeeded and in no other step of the run; an item
   whose send failed is still returned by get_pendings(chat_id) after the run
   unless the send of another item of the batch with the same md5 succeeded. *)
C5_FailedStaysPendingUnlessHashSent ==
    /\ [](\A k \in DOMAIN outcomes :
            outcomes[k] # "sent" =>
                (pending_files[k] \in Returned(chat) <=>
                    ~\E j \in DOMAIN outcomes :
                        outcomes[j] = "sent" /\ pending_files[j].md5 = pending_files[k].md5))
    /\ [][last'.op = "send" =>
            msgs' = IF last'.result = "sent"
                    THEN Append(msgs, [chat_id |-> chat, md5 |-> CurrentItem.md5])
                    ELSE msgs]_vars

(* C5 witness: a run has ended in which one send failed and another
   succeeded, and the failed item is still pending. *)
C5_Witness ==
    /\ UpdateEnded
    /\ \E k, j \in DOMAIN outcomes :
          /\ outcomes[k] = "TelegramBadRequest"
          /\ outcomes[j] = "sent"
          /\ pending_files[k] \in Returned(chat)

(* C6: a download for a link whose local file exists, with refresh_file
   False, issues neither HEAD nor GET and leaves both tables as they were. *)
C6_ExistingNotRefreshedIsSkipped ==
    [][(DownloadOfExisting /\ ~last'.refresh_file) =>
          /\ ~last'.HEAD /\ ~last'.GET
          /\ files' = files /\ msgs' = msgs
          /\ committed_files' = committed_files /\ committed_msgs' = committed_msgs]_vars

(* C6 witness: such a download has just run against a non-empty store. *)
C6_Witness ==
    /\ last.op = "download" /\ last.existed /\ ~last.refresh_file
    /\ files # <<>>

(* C7 as stated: a download with refresh_file True for a link whose local
   file exists, once HEAD has answered a timestamp, goes on to fetch exactly
   when no stored record of the link has that timestamp. *)
C7_RefreshFetchesWhenChanged ==
    [][(DownloadOfExisting /\ last'.refresh_file /\ last'.remote # 0) =>
          (last'.GET <=>
              \A i \in 1..Len(files) :
                  files[i].link = last'.link =>
                      files[i].last_modified # IntToText(last'.remote))]_vars

(* C8 as stated: no batch-level operation is ever left by an exception. *)
C8_NothingSurfaces == pc # "raised"

(* C9 as stated: every row an add_file or add_record has appended is still in
   its table after the process ends, however it ends. *)
C9_RowsSurviveTermination ==
    [][last'.op \in {"exit", "kill"} => files' = files /\ msgs' = msgs]_vars

(* C10: no step of a running process removes or changes a file row; the table
   grows only in a download that completed, and then by exactly one row,
   appended for the link downloaded. *)
C10_FilesAppendOnly ==
    [][last'.op \notin {"exit", "kill"} =>
          IF last'.op = "download" /\ last'.result = "downloaded"
          THEN /\ Len(files') = Len(files) + 1
               /\ SubSeq(files', 1, Len(files)) = files
               /\ files'[Len(files')].link = last'.link
          ELSE files' = files]_vars

(* C10 witness: a download has just appended a row after an earlier one with
   the same content. *)
C10_Witness ==
    /\ last.op = "download" /\ last.result = "downloaded"
    /\ Len(files) >= 2
    /\ \E i \in 1..(Len(files) - 1) : files[i].md5 = files[Len(files)].md5

----------------------------------------------------------------------------
(* Link parser: get_year_from_txt, on a text given as its sequence of
   characters.                                                             *)

MaxLen == 6

Alphabet == {"1", "2", "I", "p", "_"}

Chars(n) == [1..n -> Alphabet]

Example1 == <<"2", "0", "2", "4", " ", "A", "p", "r", "i", "l", " ", "E", "x", "a", "m">>
Example2 == <<"2", "0", "1", "9", "S", "_", "F", "E", ".", "p", "d", "f">>
Example3 == <<"I", "P", "A", "p", "r", "i", "l", "2", "0", "1", "2", ".", "z", "i", "p">>

(* The three texts of the docstring. *)
Examples == {Example1, Example2, Example3}

(* \d *)
IsDigit(c) == c \in {"0", "1", "2", "3", "4", "5", "6", "7", "8", "9"}

(* \d{n} matched at position p *)
DigitsAt(text, p, n) ==
    /\ p + n - 1 <= Len(text)
    /\ \A k \in p..(p + n - 1) : IsDigit(text[k])

(* re.IGNORECASE, for the letters of the exam codes *)
Upper(c) ==
    CASE c = "i" -> "I" [] c = "p" -> "P" [] c = "f" -> "F"
      [] c = "e" -> "E" [] c = "a" -> "A" [] OTHER -> c

(* (IP|FE|AP) matched at position p, ignoring case *)
CodeAt(text, p) ==
    /\ p + 1 <= Len(text)
    /\ <<Upper(text[p]), Upper(text[p + 1])>> \in {<<"I", "P">>, <<"F", "E">>, <<"A", "P">>}

(* re.findall(r"(\d{2})?(\d{4})", text) from position p on: the
   non-overlapping matches left to right, each the pair of its two groups; the
   optional group is greedy, and empty when it takes no part in the match. *)
RECURSIVE FindAll(_, _)
FindAll(text, p) ==
    IF p > Len(text) THEN <<>>
    ELSE IF DigitsAt(text, p, 6)
    THEN <<SubSeq(text, p, p + 1), SubSeq(text, p + 2, p + 5)>> \o FindAll(text, p + 6)
    ELSE IF DigitsAt(text, p, 4)
    THEN <<<<>>, SubSeq(text, p, p + 3)>> \o FindAll(text, p + 4)
    ELSE FindAll(text, p + 1)

(* re.search(r"(\d{4}|(?:(IP|FE|AP)\d{4}))", text, re.IGNORECASE).group(1)
   from position p on: the leftmost match, the first alternative tried first;
   None when there is no match. *)
RECURSIVE Search(_, _)
Search(text, p) ==
    IF p > Len(text) THEN None
    ELSE IF DigitsAt(text, p, 4)
    THEN [type |-> "str", val |-> SubSeq(text, p, p + 3)]
    ELSE IF CodeAt(text, p) /\ DigitsAt(text, p + 2, 4)
    THEN [type |-> "str", val |-> SubSeq(text, p, p + 5)]
    ELSE Search(text, p + 1)

(* Variant of get_year_from_txt: the two `if` blocks in the other order. *)
get_year_from_txt_search_first(text) ==
    LET patter_0 == FindAll(text, 1)
        pattern_1 == Search(text, 1)
        found == SelectSeq(patter_0, LAMBDA txt : Len(txt) = 4)
    IN  IF pattern_1 # None THEN pattern_1
        ELSE IF found # <<>> THEN [type |-> "str", val |-> found[1]]
        ELSE None

(* patter_0 is held flat, group after group of match after match, which is
   the order the two nested for loops visit. *)
get_year_from_txt(text) ==
    LET patter_0 == FindAll(text, 1)
        pattern_1 == Search(text, 1)
        found == SelectSeq(patter_0, LAMBDA txt : Len(txt) = 4)
    IN  IF found # <<>> THEN [type |-> "str", val |-> found[1]]
        ELSE IF pattern_1 # None THEN pattern_1
        ELSE None

(* One call of get_year_from_txt in a fresh process; last holds the text and
   what was returned. *)
GetYearFromTxt(text) ==
    /\ last.op = "start"
    /\ last' = Obs("get_year_from_txt", text, FALSE, FALSE, FALSE, FALSE, get_year_from_txt(text))
    /\ UNCHANGED <<files, msgs, committed_files, committed_msgs, fs, pc, todo, refresh_file,
                   chat, pending_files, outcomes, runs>>

(* The function is applied to every text over Alphabet of at most MaxLen
   characters, and to the three texts of its docstring. *)
NextYear ==
    \/ last.op = "start" /\ \E n \in 0..MaxLen : \E text \in Chars(n) : GetYearFromTxt(text)
    \/ last.op = "start" /\ \E text \in Examples : GetYearFromTxt(text)

SpecYear == Init /\ [][NextYear]_vars

(* The text holds four consecutive digits somewhere. *)
HasFourDigits(text) == \E k \in 1..Len(text) : DigitsAt(text, k, 4)

(* C11: get_year_from_txt returns, for every text, None or a string of
   exactly four digits; None exactly when the text holds no four consecutive
   digits, and otherwise four digits that stand together in the text; for the
   three texts of the docstring it returns 2024, 2019 and 2012. *)
C11_YearIsFourDigitsOfText ==
    last.op = "get_year_from_txt" =>
        LET text == last.link
            year == last.result
        IN  /\ (year = None) <=> ~HasFourDigits(text)
            /\ year # None =>
                  /\ year.type = "str"
                  /\ Len(year.val) = 4
                  /\ \A k \in 1..4 : IsDigit(year.val[k])
                  /\ \E k \in 1..Len(text) :
                        k + 3 <= Len(text) /\ SubSeq(text, k, k + 3) = year.val
            /\ text = Example1 => year.val = <<"2", "0", "2", "4">>
            /\ text = Example2 => year.val = <<"2", "0", "1", "9">>
            /\ text = Example3 => year.val = <<"2", "0", "1", "2">>

(* C11 witness: a text that opens with six digits, for which the year
   returned is its third to sixth digit, not its first four. *)
C11_Witness ==
    /\ last.op = "get_year_from_txt"
    /\ DigitsAt(last.link, 1, 6)
    /\ last.result # None
    /\ last.result.val = SubSeq(last.link, 3, 6)
    /\ last.result.val # SubSeq(last.link, 1, 4)

(* C12 as stated: telegram_msgs never holds two rows with the same chat_id
   and md5. *)
C12_OneRowPerPair ==
    \A i, j \in DOMAIN msgs : msgs[i] = msgs[j] => i = j

----------------------------------------------------------------------------
(* Delivery run after run: the store as the downloads of earlier runs left
   it, and the process started with --update-telegram again and again.     *)

QuestionLinks == {"Q1", "Q2"}

(* The file rows a completed download of the link may have appended. *)
RowsOf(link) ==
    {[link |-> link, last_modified |-> TextAffinity(t), md5 |-> m, year_month |-> YearMonth(link)] :
        t \in Timestamps, m \in Md5s}

(* The stores a run of the downloads may have left: nothing, the row of one
   question link, or the row of Q1 followed by the row of Q2 (main fetches
   the FE page before the IP page), each local file in place.  The contents
   are named up to renaming: the first row holds md5 "a". *)
FirstRowsOf(link) == {r \in RowsOf(link) : r.md5 = "a"}

Stores ==
    {<<>>}
    \cup {<<r>> : r \in FirstRowsOf("Q1") \cup FirstRowsOf("Q2")}
    \cup {<<r1, r2>> : r1 \in FirstRowsOf("Q1"), r2 \in RowsOf("Q2")}

InitDelivery ==
    /\ files \in Stores
    /\ msgs = <<>>
    /\ committed_files = Len(files)
    /\ committed_msgs = 0
    /\ fs = {DownloadPath(files[i].link) : i \in 1..Len(files)}
    /\ pc = "start"
    /\ todo = <<>>
    /\ refresh_file = FALSE
    /\ chat = "none"
    /\ pending_files = <<>>
    /\ outcomes = <<>>
    /\ runs = 1
    /\ last = Obs("start", "", FALSE, FALSE, FALSE, FALSE, "started")

(* The process ends through __del__ and is started again. *)
ExitAndRunAgain(commit_ok) ==
    /\ pc \in {"start", "done", "raised"}
    /\ commit(commit_ok)
    /\ Reboot("exit", FALSE)
    /\ UNCHANGED runs

(* The process is killed and is started again. *)
KillAndRunAgain ==
    /\ UNCHANGED <<committed_files, committed_msgs, runs>>
    /\ Reboot("kill", FALSE)

NextDelivery ==
    \/ \E ok \in BOOLEAN : TelegramBotInit(ok)
    \/ \E c \in Chats : Update(c)
    \/ \E o \in SendOutcomes : SendStep(o)
    \/ \E ok \in BOOLEAN : ExitAndRunAgain(ok)
    \/ KillAndRunAgain

(* The send of the file of link l to chat c succeeds. *)
SendSucceeds(c, l) == SendStep("sent") /\ chat = c /\ CurrentItem.link = l

(* The code runs on: the bot is set up, the loop of update goes from item to
   item, the process ends.  The runs are repeated for every chat, and a send
   that is tried again and again succeeds at some time. *)
FairDelivery ==
    /\ WF_vars(\E ok \in BOOLEAN : TelegramBotInit(ok))
    /\ WF_vars(\E o \in SendOutcomes : SendStep(o))
    /\ WF_vars(\E ok \in BOOLEAN : ExitAndRunAgain(ok))
    /\ \A c \in Chats : SF_vars(Update(c))
    /\ \A c \in Chats : \A l \in QuestionLinks : SF_vars(SendSucceeds(c, l))

SpecDelivery == InitDelivery /\ [][NextDelivery]_vars /\ FairDelivery

(* A run of update has returned with every item of its batch sent. *)
RunAllSent ==
    /\ UpdateEnded
    /\ pc = "done"
    /\ Len(outcomes) = Len(pending_files)
    /\ \A k \in DOMAIN outcomes : outcomes[k] = "sent"

(* The content m has been sent to chat c and recorded. *)
Delivered(c, m) == [chat_id |-> c, md5 |-> m] \in Range(msgs)

(* The file of link l has just been sent to chat c. *)
FileSent(c, l) ==
    last.op = "send" /\ last.result = "sent" /\ last.link = l /\ chat = c

(* C13 as stated: when a run of update(chat_id) in which every send succeeded
   has ended, get_pendings(chat_id) is empty; and with the runs repeated and
   every send succeeding at some time, every stored file is in the end sent
   to every chat the runs are made for. *)
C13_AllSentLeavesNothingPending ==
    /\ [](RunAllSent => Returned(chat) = {})
    /\ \A c \in Chats : \A l \in QuestionLinks :
          (\E i \in 1..Len(files) : files[i].link = l) => <>FileSent(c, l)

(* C13 amended: when a run of update(chat_id) in which every send succeeded
   has ended, get_pendings(chat_id) is empty; and with the runs repeated and
   every send succeeding at some time, the content (md5) of every stored file
   is in the end sent to every chat the runs are made for and recorded. *)
C13_AllSentLeavesNothingPendingByHash ==
    /\ [](RunAllSent => Returned(chat) = {})
    /\ \A c \in Chats : \A m \in Md5s :
          (\E i \in 1..Len(files) : files[i].md5 = m) => <>Delivered(c, m)

(* C13 witness: a run over two pending files has ended with both sent and
   nothing left pending for the chat. *)
C13_Witness ==
    /\ RunAllSent
    /\ Len(outcomes) = 2
    /\ Returned(chat) = {}

====
